---- MODULE Spec2Model ----
(***************************************************************************)
(* Model of Calls::Call (Telegram/SourceFiles/calls/calls_call.cpp): the   *)
(* call set-up state machine, its key exchange, the signaling requests it  *)
(* sends, the owner's queue of deferred calls, the hangup timer and the    *)
(* transport controller's state callback.                                  *)
(*                                                                         *)
(* Every handler of the class is an operator on a record c that holds the  *)
(* whole object and its surroundings (This); an action applies one handler *)
(* to This and assigns the result to the variables.                        *)
(***************************************************************************)
EXTENDS Integers, Sequences, FiniteSets, TLC

VARIABLES
    type,                       \* _type
    state,                      \* _state
    id,                         \* _id (0: not assigned)
    accessHash,                 \* _accessHash
    finishAfterRequestingCall,  \* _finishAfterRequestingCall
    dhConfig,                   \* _dhConfig, [g, p] (p = 0: empty prime)
    randomPower,                \* _randomPower, as a number
    ga,                         \* _ga, bytes
    gb,                         \* _gb, bytes
    gaHash,                     \* _gaHash
    authKey,                    \* _authKey, kAuthKeySize bytes, packed
    keyFingerprint,             \* _keyFingerprint, 8 bytes, most significant first
    controller,                 \* _controller
    startTime,                  \* _startTime (0: never set, 1: a getms() value)
    started,                    \* start() was called
    alive,                      \* the Call object was not destroyed
    delegateNotified,           \* callFinished / callFailed reached the delegate
    pending,                    \* requests in flight, per request
    queue,                      \* InvokeQueued(this, ...) calls not yet run
    timerArmed,                 \* _hangupByTimeoutTimer is scheduled
    numDiscard,                 \* DiscardCall requests sent so far: 0, 1, 2 (or more)
    numControllers,             \* controllers constructed so far: 0, 1, 2 (or more)
    last,                       \* the observed handler call and its argument
    ret,                        \* what handleUpdate returned in the observed call
    out                         \* what the observed call emitted, in order

vars == <<type, state, id, accessHash, finishAfterRequestingCall, dhConfig,
          randomPower, ga, gb, gaHash, authKey, keyFingerprint, controller,
          startTime, started, alive, delegateNotified, pending, queue,
          timerArmed, numDiscard, numControllers, last, ret, out>>

(***************************************************************************)
(* Bounds of the model.                                                    *)
(***************************************************************************)
MaxPending == 1
MaxQueue == 1
MaxSecretByte == 5

(***************************************************************************)
(* Program constants.                                                      *)
(***************************************************************************)
kFingerprintDataSize == 256
kAuthKeySize == kFingerprintDataSize
kSha1Size == 20

States == {"Requesting", "Waiting", "Ringing", "ExchangingKeys", "WaitingInit",
           "WaitingInitAck", "Established", "HangingUp", "Ended", "Busy", "Failed"}
Types == {"Outgoing", "Incoming"}
Requests == {"RequestCall", "AcceptCall", "ConfirmCall", "DiscardCall"}

\* The state a Call holds before its constructor's body runs.
DefaultState == "Ringing"

\* AuthSession::CurrentUserId() and peerToUser(_user->id).
CurrentUserId == "self"
PeerUserId == "peer"
UserIds == {CurrentUserId, PeerUserId}

(***************************************************************************)
(* Values the environment supplies.                                        *)
(***************************************************************************)
IdVals == {1, 2}
AccessHashVals == {11, 12}
DhConfigs == {[g |-> 3, p |-> 1009], [g |-> 5, p |-> 5]}
RandomPowers == {3}
PeerVals == {0, 40}

(***************************************************************************)
(* Bytes and big numbers (openssl::BigNum).                                *)
(***************************************************************************)
RECURSIVE Bytes(_)
Bytes(n) == IF n = 0 THEN <<>> ELSE Append(Bytes(n \div 256), n % 256)

RECURSIVE FromBytes(_)
FromBytes(b) ==
    IF b = <<>> THEN 0
    ELSE FromBytes(SubSeq(b, 1, Len(b) - 1)) * 256 + b[Len(b)]

RECURSIVE PowMod(_, _, _)
PowMod(base, e, m) ==
    IF e = 0 THEN 1 % m ELSE ((base % m) * PowMod(base, e - 1, m)) % m

\* setModExp fails on an empty modulus, and getBytes of a failed or zero
\* number is empty.
ComputeModExp(config, base, power) ==
    IF config.p = 0 THEN <<>> ELSE Bytes(PowMod(base, power, config.p))

ComputeModExpFirst(config, power) == ComputeModExp(config, config.g, power)

ComputeModExpFinal(config, first, power) ==
    ComputeModExp(config, FromBytes(first), power)

(***************************************************************************)
(* Hashes. SHA-256 is only ever compared, so its digest is the term        *)
(* sha256(b); SHA-1's digest is read byte by byte, so it is a concrete     *)
(* kSha1Size-byte value that depends on every byte of the input.           *)
(***************************************************************************)
\* _gaHash.size(): the size of every SHA-256 digest; sizes are only compared.
Sha256Size == "kSha256Size"
Sha256(b) == [size |-> Sha256Size, digest |-> <<"sha256", b>>]

RECURSIVE Sha1Mix(_, _, _)
Sha1Mix(b, lo, hi) ==
    IF lo > hi THEN 7
    ELSE IF lo = hi THEN (b[lo] * 31 + lo) % 65521
    ELSE LET mid == (lo + hi) \div 2
         IN (Sha1Mix(b, lo, mid) * 131 + Sha1Mix(b, mid + 1, hi)) % 65521

Sha1(b) ==
    LET m == Sha1Mix(b, 1, Len(b))
    IN [i \in 1..kSha1Size |-> (m * (2 * i + 1) + 13 * i) % 256]

\* The digest's bytes 12 to 19 taken in their order, byte 12 the most
\* significant.
ComputeFingerprintBigEndian(key) ==
    LET hash == Sha1(key)
    IN <<hash[13], hash[14], hash[15], hash[16],
         hash[17], hash[18], hash[19], hash[20]>>

\* hash[k] of the code is hash[k + 1] here. The uint64 is written as its
\* eight bytes, the most significant first.
ComputeFingerprint(key) ==
    LET hash == Sha1(key)
    IN <<hash[20], hash[19], hash[18], hash[17],
         hash[16], hash[15], hash[14], hash[13]>>

ZeroFingerprint == <<0, 0, 0, 0, 0, 0, 0, 0>>

\* A fill that puts the computed key first and the zero bytes after it.
FillAuthKeyAtFront(computedAuthKey) ==
    [i \in 1..kAuthKeySize |->
        IF i <= Len(computedAuthKey) THEN computedAuthKey[i] ELSE 0]

\* The padding of a computed key into _authKey.
FillAuthKey(computedAuthKey) ==
    LET computedAuthKeySize == Len(computedAuthKey)
    IN IF computedAuthKeySize < kAuthKeySize
       THEN [i \in 1..kAuthKeySize |->
                IF i <= kAuthKeySize - computedAuthKeySize THEN 0
                ELSE computedAuthKey[i - (kAuthKeySize - computedAuthKeySize)]]
       ELSE computedAuthKey

\* A byte array is held in the state without its leading zero bytes: Pack
\* counts them and keeps the rest, Unpack gives the array back.
Pack(bytes) ==
    LET nonzero == {i \in 1..Len(bytes) : bytes[i] # 0}
        zeros == IF nonzero = {} THEN Len(bytes)
                 ELSE (CHOOSE i \in nonzero : \A j \in nonzero : i <= j) - 1
    IN [zeros |-> zeros, rest |-> SubSeq(bytes, zeros + 1, Len(bytes))]

Unpack(packed) ==
    [i \in 1..(packed.zeros + Len(packed.rest)) |->
        IF i <= packed.zeros THEN 0 ELSE packed.rest[i - packed.zeros]]

NoBytes == <<>>
NoController == [exists |-> FALSE, key |-> Pack(NoBytes), isOutgoing |-> FALSE]

(***************************************************************************)
(* The values ComputeModExp can give in this model, and for each of them   *)
(* the key it is filled into and that key's fingerprint, computed once.    *)
(***************************************************************************)
RawKeys ==
    {ComputeModExp(config, v, power) :
        config \in DhConfigs, v \in PeerVals, power \in RandomPowers}
AuthKeyOf == [raw \in RawKeys |-> Pack(FillAuthKey(raw))]
FingerprintOf == [raw \in RawKeys |-> ComputeFingerprint(FillAuthKey(raw))]

(***************************************************************************)
(* The object and its surroundings as one record.                          *)
(***************************************************************************)
This ==
    [type |-> type, state |-> state, id |-> id, accessHash |-> accessHash,
     finishAfterRequestingCall |-> finishAfterRequestingCall,
     dhConfig |-> dhConfig, randomPower |-> randomPower, ga |-> ga, gb |-> gb,
     gaHash |-> gaHash, authKey |-> authKey, keyFingerprint |-> keyFingerprint,
     controller |-> controller, startTime |-> startTime, started |-> started,
     alive |-> alive, delegateNotified |-> delegateNotified,
     pending |-> pending, queue |-> queue, timerArmed |-> timerArmed,
     numDiscard |-> numDiscard, numControllers |-> numControllers,
     last |-> last, ret |-> ret, out |-> out, overflow |-> FALSE]

\* The record a handler starts from: nothing emitted yet, nothing returned.
Enter(op, arg) ==
    [This EXCEPT !.last = [op |-> op, arg |-> arg], !.ret = "none", !.out = <<>>]

Emit(c, e) == [c EXCEPT !.out = Append(@, e)]

(***************************************************************************)
(* Call::setState                                                          *)
(***************************************************************************)
\* A setState whose Busy case schedules no timer.
SetStateBusyWithoutTimer(c, s) ==
    IF c.state = s THEN c
    ELSE LET c1 == Emit([c EXCEPT !.state = s], <<"stateChanged", s>>)
         IN CASE s \in {"WaitingInit", "WaitingInitAck", "Established"} ->
                   Emit([c1 EXCEPT !.startTime = 1], <<"startTime">>)
              [] s = "Ended" ->
                   Emit([c1 EXCEPT !.delegateNotified = TRUE], <<"callFinished">>)
              [] s = "Failed" ->
                   Emit([c1 EXCEPT !.delegateNotified = TRUE], <<"callFailed">>)
              [] OTHER -> c1

\* setState without the comparison of the states.
SetStateAlways(c, s) ==
    LET c1 == Emit([c EXCEPT !.state = s], <<"stateChanged", s>>)
    IN CASE s \in {"WaitingInit", "WaitingInitAck", "Established"} ->
              Emit([c1 EXCEPT !.startTime = 1], <<"startTime">>)
         [] s = "Ended" ->
              Emit([c1 EXCEPT !.delegateNotified = TRUE], <<"callFinished">>)
         [] s = "Failed" ->
              Emit([c1 EXCEPT !.delegateNotified = TRUE], <<"callFailed">>)
         [] s = "Busy" ->
              Emit([c1 EXCEPT !.timerArmed = TRUE], <<"timer">>)
         [] OTHER -> c1

SetState(c, s) ==
    IF c.state = s THEN c
    ELSE LET c1 == Emit([c EXCEPT !.state = s], <<"stateChanged", s>>)
         IN CASE s \in {"WaitingInit", "WaitingInitAck", "Established"} ->
                   Emit([c1 EXCEPT !.startTime = 1], <<"startTime">>)
              [] s = "Ended" ->
                   Emit([c1 EXCEPT !.delegateNotified = TRUE], <<"callFinished">>)
              [] s = "Failed" ->
                   Emit([c1 EXCEPT !.delegateNotified = TRUE], <<"callFailed">>)
              [] s = "Busy" ->
                   Emit([c1 EXCEPT !.timerArmed = TRUE], <<"timer">>)
              [] OTHER -> c1

\* One more of what a counter counts. The counters tell none, one and
\* several apart: 2 stands for every count above one.
Counted(n) == IF n = 0 THEN 1 ELSE 2

\* request(...).send(): one more request of this kind in flight.
Request(c, req, arg) ==
    Emit([c EXCEPT !.pending[req] = @ + 1,
                   !.overflow = @ \/ c.pending[req] >= MaxPending],
         <<"request", req, arg>>)

\* InvokeQueued(this, [this] { setState(s); })
InvokeQueued(c, s) ==
    [c EXCEPT !.queue = Append(@, s), !.overflow = @ \/ Len(c.queue) >= MaxQueue]

\* A finish that does not look at _id.
FinishWithoutIdTest(c, reason) ==
    IF c.state = "Requesting"
    THEN Emit([c EXCEPT !.timerArmed = TRUE, !.finishAfterRequestingCall = TRUE],
              <<"timer">>)
    ELSE IF c.state = "HangingUp" \/ c.state = "Ended" THEN c
    ELSE LET c1 == SetState(c, "HangingUp")
             c2 == Emit([c1 EXCEPT !.timerArmed = TRUE], <<"timer">>)
             c3 == Request(c2, "DiscardCall",
                           [id |-> c2.id, reason |-> reason, from |-> c.state])
         IN [c3 EXCEPT !.numDiscard = Counted(@)]

\* A finish that sends DiscardCall and schedules no timer.
FinishWithoutTimer(c, reason) ==
    IF c.state = "Requesting"
    THEN Emit([c EXCEPT !.timerArmed = TRUE, !.finishAfterRequestingCall = TRUE],
              <<"timer">>)
    ELSE IF c.state = "HangingUp" \/ c.state = "Ended" THEN c
    ELSE IF c.id = 0 THEN SetState(c, "Ended")
    ELSE LET c1 == SetState(c, "HangingUp")
             c3 == Request(c1, "DiscardCall",
                           [id |-> c1.id, reason |-> reason, from |-> c.state])
         IN [c3 EXCEPT !.numDiscard = Counted(@)]

(***************************************************************************)
(* Call::finish, Call::hangup, Call::decline                               *)
(***************************************************************************)
Finish(c, reason) ==
    IF c.state = "Requesting"
    THEN Emit([c EXCEPT !.timerArmed = TRUE, !.finishAfterRequestingCall = TRUE],
              <<"timer">>)
    ELSE IF c.state = "HangingUp" \/ c.state = "Ended" THEN c
    ELSE IF c.id = 0 THEN SetState(c, "Ended")
    ELSE LET c1 == SetState(c, "HangingUp")
             c2 == Emit([c1 EXCEPT !.timerArmed = TRUE], <<"timer">>)
             c3 == Request(c2, "DiscardCall",
                           [id |-> c2.id, reason |-> reason, from |-> c.state])
         IN [c3 EXCEPT !.numDiscard = Counted(@)]

Hangup(c) ==
    LET missed == (c.state = "Ringing"
                   \/ (c.state = "Waiting" /\ c.type = "Outgoing"))
    IN Finish(c, IF missed THEN "missed" ELSE "hangup")

Decline(c) == Finish(c, "busy")

(***************************************************************************)
(* Call::checkCallCommonFields, Call::checkCallFields. Each gives the      *)
(* object after the check (c) and the check's result (ok).                 *)
(***************************************************************************)
CheckCallCommonFields(c, call) ==
    LET adminId == IF c.type = "Outgoing" THEN CurrentUserId ELSE PeerUserId
        participantId == IF c.type = "Outgoing" THEN PeerUserId ELSE CurrentUserId
    IN IF call.access_hash # c.accessHash
       THEN [c |-> SetState(c, "Failed"), ok |-> FALSE]
       ELSE IF call.admin_id # adminId
       THEN [c |-> SetState(c, "Failed"), ok |-> FALSE]
       ELSE IF call.participant_id # participantId
       THEN [c |-> SetState(c, "Failed"), ok |-> FALSE]
       ELSE [c |-> c, ok |-> TRUE]

\* checkCallFields without the comparison of the fingerprints.
CheckCallFieldsNoFingerprint(c, call) == CheckCallCommonFields(c, call)

CheckCallFields(c, call) ==
    LET common == CheckCallCommonFields(c, call)
    IN IF ~common.ok THEN common
       ELSE IF call.key_fingerprint # c.keyFingerprint
       THEN [c |-> SetState(c, "Failed"), ok |-> FALSE]
       ELSE [c |-> c, ok |-> TRUE]

CheckCallFieldsAccepted(c, call) == CheckCallCommonFields(c, call)

(***************************************************************************)
(* Call::createAndStartController                                          *)
(***************************************************************************)
CreateAndStartController(c, call) ==
    LET checked == CheckCallFields(c, call)
    IN IF ~checked.ok THEN checked.c
       ELSE LET c1 == SetState(checked.c, "Established")
            IN Emit([c1 EXCEPT
                       !.controller = [exists |-> TRUE, key |-> c1.authKey,
                                       isOutgoing |-> (c1.type = "Outgoing")],
                       !.numControllers = Counted(@)],
                    <<"controller">>)

\* confirmAcceptedCall leaving the state as it is.
ConfirmAcceptedCallKeepingState(c, call) ==
    LET computedAuthKey == ComputeModExpFinal(c.dhConfig, call.g_b, c.randomPower)
    IN IF computedAuthKey = <<>> THEN SetState(c, "Failed")
       ELSE LET c1 == [c EXCEPT !.authKey = AuthKeyOf[computedAuthKey],
                                !.keyFingerprint = FingerprintOf[computedAuthKey]]
            IN Request(c1, "ConfirmCall",
                       [id |-> c1.id, fingerprint |-> c1.keyFingerprint])

(***************************************************************************)
(* Call::confirmAcceptedCall and the handlers of its ConfirmCall request   *)
(***************************************************************************)
ConfirmAcceptedCall(c, call) ==
    LET computedAuthKey == ComputeModExpFinal(c.dhConfig, call.g_b, c.randomPower)
    IN IF computedAuthKey = <<>> THEN SetState(c, "Failed")
       ELSE LET c1 == [c EXCEPT !.authKey = AuthKeyOf[computedAuthKey],
                                !.keyFingerprint = FingerprintOf[computedAuthKey]]
                c2 == SetState(c1, "ExchangingKeys")
            IN Request(c2, "ConfirmCall",
                       [id |-> c2.id, fingerprint |-> c2.keyFingerprint])

ConfirmCallDone(c, result) ==
    IF result.type # "phoneCall" THEN SetState(c, "Failed")
    ELSE CreateAndStartController(c, result)

\* A fail handler that sends the request again.
ConfirmCallFailRetrying(c) ==
    Request(SetState(c, "Failed"), "ConfirmCall",
            [id |-> c.id, accessHash |-> c.accessHash, ga |-> c.ga,
             keyFingerprint |-> c.keyFingerprint])

ConfirmCallFail(c) == SetState(c, "Failed")

\* startConfirmedCall without the comparison of the commitment.
StartConfirmedCallUnchecked(c, call) ==
    LET firstBytes == call.g_a_or_b
        computedAuthKey == ComputeModExpFinal(c.dhConfig, firstBytes, c.randomPower)
    IN IF computedAuthKey = <<>> THEN SetState(c, "Failed")
       ELSE LET c1 == [c EXCEPT !.authKey = AuthKeyOf[computedAuthKey],
                                !.keyFingerprint = FingerprintOf[computedAuthKey]]
            IN CreateAndStartController(c1, call)

(***************************************************************************)
(* Call::startConfirmedCall                                                *)
(***************************************************************************)
StartConfirmedCall(c, call) ==
    LET firstBytes == call.g_a_or_b
    IN IF c.gaHash # Sha256(firstBytes) THEN SetState(c, "Failed")
       ELSE LET computedAuthKey ==
                    ComputeModExpFinal(c.dhConfig, firstBytes, c.randomPower)
            IN IF computedAuthKey = <<>> THEN SetState(c, "Failed")
               ELSE LET c1 == [c EXCEPT !.authKey = AuthKeyOf[computedAuthKey],
                                        !.keyFingerprint = FingerprintOf[computedAuthKey]]
                    IN CreateAndStartController(c1, call)

\* handleUpdate taking a phoneCallRequested whatever id the call holds.
HandlesAnyRequested(c, call) ==
    call.type = "phoneCallRequested" =>
        (c.type = "Incoming" /\ call.admin_id = PeerUserId)

(***************************************************************************)
(* Call::handleUpdate. ret is the value it returns. debugLog is what the   *)
(* controller's GetDebugLog() gives when it is asked.                      *)
(***************************************************************************)
\* The Unexpected(...) of phoneCallRequested ends the process: such an
\* update is never handled.
Handles(c, call) ==
    call.type = "phoneCallRequested" =>
        (c.type = "Incoming" /\ c.id = 0 /\ call.admin_id = PeerUserId)

Return(c, value) == [c EXCEPT !.ret = IF value THEN "true" ELSE "false"]

\* A caller that drops handleUpdate's result.
Dropped(c) == [c EXCEPT !.ret = "none"]

\* The phoneCallRequested case not keeping the commitment.
HandleRequestedDroppingHash(c, data) ==
    IF data.participant_id # CurrentUserId
    THEN [SetState(c, "Failed") EXCEPT !.ret = "true"]
    ELSE LET c1 == [c EXCEPT !.id = data.id, !.accessHash = data.access_hash]
         IN IF data.g_a_hash.size # Sha256Size
            THEN [SetState(c1, "Failed") EXCEPT !.ret = "true"]
            ELSE [c1 EXCEPT !.ret = "true"]

HandleRequested(c, data) ==
    IF data.participant_id # CurrentUserId
    THEN Return(SetState(c, "Failed"), TRUE)
    ELSE LET c1 == [c EXCEPT !.id = data.id, !.accessHash = data.access_hash]
         IN IF data.g_a_hash.size # Sha256Size
            THEN Return(SetState(c1, "Failed"), TRUE)
            ELSE Return([c1 EXCEPT !.gaHash = data.g_a_hash], TRUE)

HandleDiscarded(c, data, debugLog) ==
    LET log == IF c.controller.exists THEN debugLog ELSE ""
        c1 == IF data.need_debug /\ log # ""
              THEN Emit(c, <<"SaveCallDebug", c.id>>) ELSE c
    IN IF data.reason = "busy"
       THEN Return(SetState(c1, "Busy"), TRUE)
       ELSE Return(SetState(c1, "Ended"), TRUE)

HandleAccepted(c, data) ==
    IF c.type # "Outgoing" THEN Return(SetState(c, "Failed"), TRUE)
    ELSE LET checked == CheckCallFieldsAccepted(c, data)
         IN IF checked.ok THEN Return(ConfirmAcceptedCall(checked.c, data), TRUE)
            ELSE Return(checked.c, TRUE)

\* handleUpdate comparing the ids only after the phoneCallEmpty case.
HandleUpdateEmptyOfAnyId(c, call, debugLog) ==
    IF call.type = "phoneCallRequested" THEN HandleRequested(c, call)
    ELSE IF call.type = "phoneCallEmpty" THEN Return(SetState(c, "Failed"), TRUE)
    ELSE IF call.id # c.id THEN Return(c, FALSE)
    ELSE CASE call.type = "phoneCallWaiting" -> Return(c, TRUE)
           [] call.type = "phoneCall" ->
                IF c.type = "Incoming" /\ c.state = "ExchangingKeys"
                THEN Return(StartConfirmedCall(c, call), TRUE)
                ELSE Return(c, TRUE)
           [] call.type = "phoneCallDiscarded" -> HandleDiscarded(c, call, debugLog)
           [] call.type = "phoneCallAccepted" -> HandleAccepted(c, call)

HandleUpdate(c, call, debugLog) ==
    IF call.type = "phoneCallRequested" THEN HandleRequested(c, call)
    ELSE IF call.id # c.id THEN Return(c, FALSE)
    ELSE CASE call.type = "phoneCallEmpty" -> Return(SetState(c, "Failed"), TRUE)
           [] call.type = "phoneCallWaiting" -> Return(c, TRUE)
           [] call.type = "phoneCall" ->
                IF c.type = "Incoming" /\ c.state = "ExchangingKeys"
                THEN Return(StartConfirmedCall(c, call), TRUE)
                ELSE Return(c, TRUE)
           [] call.type = "phoneCallDiscarded" -> HandleDiscarded(c, call, debugLog)
           [] call.type = "phoneCallAccepted" -> HandleAccepted(c, call)

\* The done handler of RequestCall storing the id before it looks at
\* _finishAfterRequestingCall.
RequestCallDoneStoringFirst(c, result) ==
    IF result.type # "phoneCallWaiting" THEN SetState(c, "Failed")
    ELSE LET c1 == SetState(c, "Waiting")
             c2 == [c1 EXCEPT !.id = result.id, !.accessHash = result.access_hash]
         IN IF c2.finishAfterRequestingCall THEN Hangup(c2)
            ELSE Dropped(HandleUpdate(c2, result, ""))

(***************************************************************************)
(* Call::start, Call::startOutgoing and the handlers of its RequestCall    *)
(* request, Call::startIncoming                                            *)
(***************************************************************************)
StartOutgoing(c) ==
    LET c1 == [c EXCEPT !.ga = ComputeModExpFirst(c.dhConfig, c.randomPower)]
    IN IF c1.ga = <<>> THEN SetState(c1, "Failed")
       ELSE LET c2 == [c1 EXCEPT !.gaHash = Sha256(c1.ga)]
                c3 == SetState(c2, "Requesting")
            IN Request(c3, "RequestCall", [gaHash |-> c3.gaHash])

StartIncoming(c) == SetState(c, "Ringing")

Start(c, config, power) ==
    LET c1 == [c EXCEPT !.dhConfig = config, !.randomPower = power,
                        !.started = TRUE]
    IN IF c1.type = "Outgoing" THEN StartOutgoing(c1) ELSE StartIncoming(c1)

RequestCallDone(c, result) ==
    IF result.type # "phoneCallWaiting" THEN SetState(c, "Failed")
    ELSE LET c1 == SetState(c, "Waiting")
         IN IF c1.finishAfterRequestingCall THEN Hangup(c1)
            ELSE LET c2 == [c1 EXCEPT !.id = result.id,
                                      !.accessHash = result.access_hash]
                 IN Dropped(HandleUpdate(c2, result, ""))

RequestCallFail(c) == SetState(c, "Failed")

(***************************************************************************)
(* Call::answer and the handlers of its AcceptCall request                 *)
(***************************************************************************)
Answer(c) ==
    LET c1 == [c EXCEPT !.gb = ComputeModExpFirst(c.dhConfig, c.randomPower)]
    IN IF c1.gb = <<>> THEN SetState(c1, "Failed")
       ELSE Request(SetState(c1, "ExchangingKeys"), "AcceptCall",
                    [id |-> c1.id, accessHash |-> c1.accessHash, gb |-> c1.gb])

AcceptCallDone(c, result) ==
    IF result.type # "phoneCallWaiting" THEN SetState(c, "Failed")
    ELSE Dropped(HandleUpdate(c, result, ""))

AcceptCallFail(c) == SetState(c, "Failed")

(***************************************************************************)
(* The handlers of finish's DiscardCall request. updates is the batch the  *)
(* response carries, handed to sentUpdatesReceived after the deferred      *)
(* setState is posted.                                                     *)
(***************************************************************************)
RECURSIVE SentUpdatesReceived(_, _, _)
SentUpdatesReceived(c, updates, debugLog) ==
    IF updates = <<>> THEN c
    ELSE SentUpdatesReceived(HandleUpdate(c, Head(updates), debugLog),
                             Tail(updates), debugLog)

\* A done handler that sets Ended itself before it hands the updates on.
DiscardCallDoneSettingEnded(c, updates, debugLog) ==
    Dropped(SentUpdatesReceived(SetState(c, "Ended"), updates, debugLog))

DiscardCallDone(c, updates, debugLog) ==
    Dropped(SentUpdatesReceived(InvokeQueued(c, "Ended"), updates, debugLog))

DiscardCallFail(c) == SetState(c, "Ended")

(***************************************************************************)
(* Call::handleControllerStateChange, Call::setStateQueued                 *)
(***************************************************************************)
SetStateQueued(c, s) == InvokeQueued(c, s)

ControllerStates == {"STATE_WAIT_INIT", "STATE_WAIT_INIT_ACK",
                     "STATE_ESTABLISHED", "STATE_FAILED", "STATE_OTHER"}

\* A callback that calls setState itself, on the thread it runs on.
HandleControllerStateChangeDirectly(c, controllerState) ==
    CASE controllerState = "STATE_WAIT_INIT" -> SetState(c, "WaitingInit")
      [] controllerState = "STATE_WAIT_INIT_ACK" -> SetState(c, "WaitingInitAck")
      [] controllerState = "STATE_ESTABLISHED" -> SetState(c, "Established")
      [] controllerState = "STATE_FAILED" -> SetState(c, "Failed")
      [] OTHER -> c

HandleControllerStateChange(c, controllerState) ==
    CASE controllerState = "STATE_WAIT_INIT" -> SetStateQueued(c, "WaitingInit")
      [] controllerState = "STATE_WAIT_INIT_ACK" -> SetStateQueued(c, "WaitingInitAck")
      [] controllerState = "STATE_ESTABLISHED" -> SetStateQueued(c, "Established")
      [] controllerState = "STATE_FAILED" -> SetStateQueued(c, "Failed")
      [] OTHER -> c

\* The owner's queue runs its first deferred call.
RunQueued(c) == SetState([c EXCEPT !.queue = Tail(@)], Head(c.queue))

\* _hangupByTimeoutTimer fires.
HangupByTimeout(c) == SetState([c EXCEPT !.timerArmed = FALSE], "Ended")

\* Call::~Call: the controller is released; the requests, the timer and the
\* deferred calls guarded by the object go with it.
DestroyCall(c) ==
    [c EXCEPT !.alive = FALSE, !.controller = NoController,
              !.pending = [r \in Requests |-> 0], !.queue = <<>>,
              !.timerArmed = FALSE]

(***************************************************************************)
(* What the server and the peer can send.                                  *)
(***************************************************************************)
PeerBytes == {Bytes(v) : v \in PeerVals}

\* A commitment whose size is not that of a SHA-256 digest.
ShortHash == [size |-> "short", digest |-> <<"sha256", NoBytes>>]
GaHashes == {Sha256(b) : b \in PeerBytes} \cup {ShortHash}

\* A fingerprint that belongs to no key.
BadFingerprint == <<1, 2, 3, 4, 5, 6, 7, 8>>
PeerFingerprint(first) ==
    IF started
    THEN FingerprintOf[ComputeModExpFinal(dhConfig, first, randomPower)]
    ELSE ZeroFingerprint

\* Ids and access hashes are opaque: the first of each that the server issues
\* for this call is named FirstId and FirstAccessHash.
FirstId == CHOOSE i \in IdVals : \A j \in IdVals : i <= j
FirstAccessHash == CHOOSE a \in AccessHashVals : \A b \in AccessHashVals : a <= b
ExpectedId == IF id = 0 THEN FirstId ELSE id
ExpectedAccessHash == IF accessHash = 0 THEN FirstAccessHash ELSE accessHash
ExpectedAdminId == IF type = "Outgoing" THEN CurrentUserId ELSE PeerUserId
ExpectedParticipantId == IF type = "Outgoing" THEN PeerUserId ELSE CurrentUserId

\* The values of one field of an update: those this call expects of it, or,
\* when the update deviates in that field, the others. handleUpdate stops at
\* the first field it rejects, so an update that deviates in several fields
\* is handled like the update that deviates only in the first of them: the
\* updates that reach the call deviate in at most one field.
Ids(dev) ==
    IF dev # "id" THEN {ExpectedId}
    ELSE IF id = 0 THEN {} ELSE IdVals \ {ExpectedId}
Hashes(dev) ==
    IF dev # "access_hash" THEN {ExpectedAccessHash}
    ELSE IF accessHash = 0 THEN {} ELSE AccessHashVals \ {ExpectedAccessHash}
Admins(dev) ==
    IF dev # "admin_id" THEN {ExpectedAdminId} ELSE UserIds \ {ExpectedAdminId}
Participants(dev) ==
    IF dev # "participant_id" THEN {ExpectedParticipantId}
    ELSE UserIds \ {ExpectedParticipantId}
Commitments(dev) ==
    IF dev # "g_a_hash" THEN GaHashes \ {ShortHash} ELSE {ShortHash}
Firsts(dev) ==
    IF dev # "g_a_or_b" THEN {b \in PeerBytes : Sha256(b) = gaHash}
    ELSE {b \in PeerBytes : Sha256(b) # gaHash}
Seconds(dev) ==
    IF dev # "g_b" THEN PeerBytes \ {NoBytes} ELSE {NoBytes}
Fingerprints(dev, first) ==
    IF dev # "key_fingerprint" THEN {PeerFingerprint(first)} ELSE {BadFingerprint}

RequestedUpdates ==
    UNION {{[type |-> "phoneCallRequested", id |-> i, access_hash |-> a,
             admin_id |-> PeerUserId, participant_id |-> w, g_a_hash |-> h] :
                i \in Ids(dev), a \in Hashes(dev), w \in Participants(dev),
                h \in Commitments(dev)} :
            dev \in {"none", "participant_id", "g_a_hash"}}
EmptyUpdates ==
    UNION {{[type |-> "phoneCallEmpty", id |-> i] : i \in Ids(dev)} :
            dev \in {"none", "id"}}
WaitingUpdates ==
    UNION {{[type |-> "phoneCallWaiting", id |-> i, access_hash |-> a] :
                i \in Ids(dev), a \in Hashes(dev)} :
            dev \in {"none", "id", "access_hash"}}
PhoneCallUpdates ==
    UNION {UNION {{[type |-> "phoneCall", id |-> i, access_hash |-> a,
                    admin_id |-> u, participant_id |-> w, g_a_or_b |-> b,
                    key_fingerprint |-> f] :
                       i \in Ids(dev), a \in Hashes(dev), u \in Admins(dev),
                       w \in Participants(dev), f \in Fingerprints(dev, b)} :
                   b \in Firsts(dev)} :
            dev \in {"none", "id", "access_hash", "admin_id", "participant_id",
                     "g_a_or_b", "key_fingerprint"}}
DiscardedUpdates ==
    UNION {{[type |-> "phoneCallDiscarded", id |-> i, need_debug |-> d,
             reason |-> r] :
                i \in Ids(dev),
                d \in (IF dev = "id" THEN {FALSE} ELSE BOOLEAN),
                r \in (IF dev = "id" THEN {"none"} ELSE {"none", "busy", "hangup"})} :
            dev \in {"none", "id"}}
AcceptedUpdates ==
    UNION {{[type |-> "phoneCallAccepted", id |-> i, access_hash |-> a,
             admin_id |-> u, participant_id |-> w, g_b |-> b] :
                i \in Ids(dev), a \in Hashes(dev), u \in Admins(dev),
                w \in Participants(dev), b \in Seconds(dev)} :
            dev \in {"none", "id", "access_hash", "admin_id", "participant_id",
                     "g_b"}}

\* The updates that reach this call.
Delivered ==
    RequestedUpdates \cup EmptyUpdates \cup WaitingUpdates \cup PhoneCallUpdates
        \cup DiscardedUpdates \cup AcceptedUpdates

\* The inner call of a phone.phoneCall result, for a done handler that
\* expects sub-type t: every update of that sub-type, and one of each other
\* sub-type, of which the handler reads the type only.
OfOtherTypes(t) ==
    {CHOOSE u \in S : TRUE :
        S \in {X \in {EmptyUpdates, WaitingUpdates, PhoneCallUpdates,
                      DiscardedUpdates, AcceptedUpdates} :
                  X # {} /\ \A u \in X : u.type # t}}
ResultsOf(t) ==
    (IF t = "phoneCallWaiting" THEN WaitingUpdates ELSE PhoneCallUpdates)
        \cup OfOtherTypes(t)

\* The batches a DiscardCall result carries.
UpdateBatches == {<<>>} \cup {<<u>> : u \in DiscardedUpdates}

\* What GetDebugLog() can give for this update.
DebugLogs(call) ==
    IF call.type = "phoneCallDiscarded" /\ call.need_debug /\ controller.exists
    THEN {"", "log"} ELSE {""}

\* What _gaHash can hold before it is first written. Only an Incoming call
\* reads it (startConfirmedCall); an Outgoing call writes it in start.
UninitHashes(t) ==
    IF t = "Incoming" THEN {Sha256(b) : b \in {NoBytes, Bytes(40)}}
    ELSE {Sha256(NoBytes)}

NotObserved == [op |-> "none", arg |-> ""]

(***************************************************************************)
(* The state after Call::Call.                                             *)
(***************************************************************************)
Constructed(t) ==
    LET c == [type |-> t, state |-> DefaultState, id |-> 0, accessHash |-> 0,
              finishAfterRequestingCall |-> FALSE,
              dhConfig |-> [g |-> 0, p |-> 0], randomPower |-> 0,
              ga |-> NoBytes, gb |-> NoBytes, gaHash |-> Sha256(NoBytes),
              authKey |-> Pack([i \in 1..kAuthKeySize |-> 0]),
              keyFingerprint |-> ZeroFingerprint, controller |-> NoController,
              startTime |-> 0, started |-> FALSE, alive |-> TRUE,
              delegateNotified |-> FALSE, pending |-> [r \in Requests |-> 0],
              queue |-> <<>>, timerArmed |-> FALSE, numDiscard |-> 0,
              numControllers |-> 0, last |-> NotObserved,
              ret |-> "none", out |-> <<>>, overflow |-> FALSE]
    IN IF t = "Outgoing" THEN [SetState(c, "Requesting") EXCEPT !.out = <<>>] ELSE c

\* The variables take the values of record c. last, ret and out are a probe:
\* it records one handler call of a run, any one, and the run is followed no
\* further than the call it recorded (the same run, not recorded, goes on).
Becomes(c) ==
    /\ ~c.overflow
    /\ type' = c.type
    /\ state' = c.state
    /\ id' = c.id
    /\ accessHash' = c.accessHash
    /\ finishAfterRequestingCall' = c.finishAfterRequestingCall
    /\ dhConfig' = c.dhConfig
    /\ randomPower' = c.randomPower
    /\ ga' = c.ga
    /\ gb' = c.gb
    /\ gaHash' = c.gaHash
    /\ authKey' = c.authKey
    /\ keyFingerprint' = c.keyFingerprint
    /\ controller' = c.controller
    /\ startTime' = c.startTime
    /\ started' = c.started
    /\ alive' = c.alive
    /\ delegateNotified' = c.delegateNotified
    /\ pending' = c.pending
    /\ queue' = c.queue
    /\ timerArmed' = c.timerArmed
    /\ numDiscard' = c.numDiscard
    /\ numControllers' = c.numControllers
    /\ \/ last' = c.last /\ ret' = c.ret /\ out' = c.out
       \/ last' = NotObserved /\ ret' = "none" /\ out' = <<>>

Init ==
    \E t \in Types : \E h \in UninitHashes(t) :
        LET c == [Constructed(t) EXCEPT !.gaHash = h]
        IN /\ type = c.type
           /\ state = c.state
           /\ id = c.id
           /\ accessHash = c.accessHash
           /\ finishAfterRequestingCall = c.finishAfterRequestingCall
           /\ dhConfig = c.dhConfig
           /\ randomPower = c.randomPower
           /\ ga = c.ga
           /\ gb = c.gb
           /\ gaHash = c.gaHash
           /\ authKey = c.authKey
           /\ keyFingerprint = c.keyFingerprint
           /\ controller = c.controller
           /\ startTime = c.startTime
           /\ started = c.started
           /\ alive = c.alive
           /\ delegateNotified = c.delegateNotified
           /\ pending = c.pending
           /\ queue = c.queue
           /\ timerArmed = c.timerArmed
           /\ numDiscard = c.numDiscard
           /\ numControllers = c.numControllers
           /\ last = c.last
           /\ ret = c.ret
           /\ out = c.out

\* The object lives, and the run is still followed.
Running == alive /\ last = NotObserved

\* The response of a request in flight arrives.
Answered(c, req) == [c EXCEPT !.pending[req] = @ - 1]

(***************************************************************************)
(* Actions: one per entry point of the object.                             *)
(***************************************************************************)
DoStart ==
    /\ Running /\ ~started
    /\ \E config \in DhConfigs, power \in RandomPowers :
          Becomes(Start(Enter("start", ""), config, power))

DoAnswer ==
    /\ Running /\ type = "Incoming"
    /\ Becomes(Answer(Enter("answer", "")))

DoHangup ==
    /\ Running
    /\ Becomes(Hangup(Enter("hangup", "")))

DoDecline ==
    /\ Running
    /\ Becomes(Decline(Enter("decline", "")))

DoHandleUpdate ==
    /\ Running
    /\ \E call \in Delivered :
          /\ Handles(This, call)
          /\ \E debugLog \in DebugLogs(call) :
                Becomes(HandleUpdate(Enter("handleUpdate", call.type), call, debugLog))

DoRequestCallDone ==
    /\ Running /\ pending["RequestCall"] > 0
    /\ \E result \in ResultsOf("phoneCallWaiting") :
          Becomes(RequestCallDone(
              Answered(Enter("RequestCall.done", result.type), "RequestCall"), result))

DoRequestCallFail ==
    /\ Running /\ pending["RequestCall"] > 0
    /\ Becomes(RequestCallFail(Answered(Enter("RequestCall.fail", ""), "RequestCall")))

DoAcceptCallDone ==
    /\ Running /\ pending["AcceptCall"] > 0
    /\ \E result \in ResultsOf("phoneCallWaiting") :
          Becomes(AcceptCallDone(
              Answered(Enter("AcceptCall.done", result.type), "AcceptCall"), result))

DoAcceptCallFail ==
    /\ Running /\ pending["AcceptCall"] > 0
    /\ Becomes(AcceptCallFail(Answered(Enter("AcceptCall.fail", ""), "AcceptCall")))

DoConfirmCallDone ==
    /\ Running /\ pending["ConfirmCall"] > 0
    /\ \E result \in ResultsOf("phoneCall") :
          Becomes(ConfirmCallDone(
              Answered(Enter("ConfirmCall.done", result.type), "ConfirmCall"), result))

DoConfirmCallFail ==
    /\ Running /\ pending["ConfirmCall"] > 0
    /\ Becomes(ConfirmCallFail(Answered(Enter("ConfirmCall.fail", ""), "ConfirmCall")))

DoDiscardCallDone ==
    /\ Running /\ pending["DiscardCall"] > 0
    /\ \E updates \in UpdateBatches :
          \E debugLog \in (IF updates = <<>> THEN {""} ELSE DebugLogs(updates[1])) :
              Becomes(DiscardCallDone(
                  Answered(Enter("DiscardCall.done", Len(updates)), "DiscardCall"),
                  updates, debugLog))

DoDiscardCallFail ==
    /\ Running /\ pending["DiscardCall"] > 0
    /\ Becomes(DiscardCallFail(Answered(Enter("DiscardCall.fail", ""), "DiscardCall")))

\* The transport's callback, on any thread.
DoControllerStateChange ==
    /\ Running /\ controller.exists
    /\ \E controllerState \in ControllerStates :
          Becomes(HandleControllerStateChange(
              Enter("handleControllerStateChange", controllerState), controllerState))

DoRunQueued ==
    /\ Running /\ queue # <<>>
    /\ Becomes(RunQueued(Enter("InvokeQueued", Head(queue))))

DoHangupByTimeout ==
    /\ Running /\ timerArmed
    /\ Becomes(HangupByTimeout(Enter("hangupByTimeout", "")))

\* The delegate drops the call once it was told that it finished or failed.
DoDestroy ==
    /\ Running /\ delegateNotified
    /\ Becomes(DestroyCall(Enter("~Call", "")))

Next ==
    \/ DoStart
    \/ DoAnswer
    \/ DoHangup
    \/ DoDecline
    \/ DoHandleUpdate
    \/ DoRequestCallDone
    \/ DoRequestCallFail
    \/ DoAcceptCallDone
    \/ DoAcceptCallFail
    \/ DoConfirmCallDone
    \/ DoConfirmCallFail
    \/ DoDiscardCallDone
    \/ DoDiscardCallFail
    \/ DoControllerStateChange
    \/ DoRunQueued
    \/ DoHangupByTimeout
    \/ DoDestroy

Spec == Init /\ [][Next]_vars

(***************************************************************************)
(* Every update and every result the types allow, whatever this call       *)
(* expects: the updates the properties below range over.                   *)
(***************************************************************************)
AllFingerprints ==
    {FingerprintOf[raw] : raw \in RawKeys} \cup {BadFingerprint, ZeroFingerprint}
AllRequested ==
    {[type |-> "phoneCallRequested", id |-> i, access_hash |-> a,
      admin_id |-> u, participant_id |-> w, g_a_hash |-> h] :
        i \in IdVals, a \in AccessHashVals, u \in UserIds, w \in UserIds,
        h \in GaHashes}
AllEmpty == {[type |-> "phoneCallEmpty", id |-> i] : i \in IdVals}
AllWaiting ==
    {[type |-> "phoneCallWaiting", id |-> i, access_hash |-> a] :
        i \in IdVals, a \in AccessHashVals}
AllPhoneCalls ==
    {[type |-> "phoneCall", id |-> i, access_hash |-> a, admin_id |-> u,
      participant_id |-> w, g_a_or_b |-> b, key_fingerprint |-> f] :
        i \in IdVals, a \in AccessHashVals, u \in UserIds, w \in UserIds,
        b \in PeerBytes, f \in AllFingerprints}
AllDiscarded ==
    {[type |-> "phoneCallDiscarded", id |-> i, need_debug |-> d, reason |-> r] :
        i \in IdVals, d \in BOOLEAN, r \in {"none", "busy", "hangup"}}
AllAccepted ==
    {[type |-> "phoneCallAccepted", id |-> i, access_hash |-> a, admin_id |-> u,
      participant_id |-> w, g_b |-> b] :
        i \in IdVals, a \in AccessHashVals, u \in UserIds, w \in UserIds,
        b \in PeerBytes}
\* The variants whose handling starts with the comparison of the ids.
AllWithIdMatch ==
    AllEmpty \cup AllWaiting \cup AllPhoneCalls \cup AllDiscarded \cup AllAccepted

Terminal == {"Failed", "Ended"}

\* The place of a state in the progression of the call.
Rank(s) ==
    CASE s = "Requesting" -> 0
      [] s = "Waiting" -> 1
      [] s = "Ringing" -> 2
      [] s = "ExchangingKeys" -> 3
      [] s = "WaitingInit" -> 4
      [] s = "WaitingInitAck" -> 5
      [] s = "Established" -> 6
      [] s = "HangingUp" -> 7
      [] s \in {"Ended", "Busy", "Failed"} -> 8

Emitted(c, e) == \E k \in 1..Len(c.out) : c.out[k] = e

(***************************************************************************)
(* C1: Failed and Ended are absorbing: once the state is Failed or Ended   *)
(* no step changes it.                                                     *)
(***************************************************************************)
C1_TerminalAbsorbing == [][(state \in Terminal) => (state' = state)]_vars

(***************************************************************************)
(* C2: the state advances monotonically: every change of the state moves   *)
(* to a state later in the progression (Busy to Ended allowed). Stated of  *)
(* the steps that start outside Failed and Ended, which are C1's.          *)
(***************************************************************************)
C2_MonotonicProgression ==
    [][(state \notin Terminal /\ state' # state) =>
          (Rank(state') > Rank(state) \/ (state = "Busy" /\ state' = "Ended"))]_vars

(***************************************************************************)
(* C3: hangup() on an Outgoing call in Requesting, its RequestCall still   *)
(* outstanding. As claimed: the state stays Requesting until the response  *)
(* arrives, and the response, whatever it is, moves the call to Ended      *)
(* with no DiscardCall issued.                                             *)
(***************************************************************************)
HungUpWhileRequesting ==
    /\ type = "Outgoing"
    /\ state = "Requesting"
    /\ finishAfterRequestingCall
    /\ pending["RequestCall"] > 0

C3_HangupWhileRequesting ==
    [][(HungUpWhileRequesting /\ last' # NotObserved) =>
          IF last'.op \in {"RequestCall.done", "RequestCall.fail"}
          THEN state' = "Ended" /\ numDiscard' = 0
          ELSE state' = "Requesting"]_vars

(***************************************************************************)
(* C3, as the code has it: the state stays Requesting until the response   *)
(* arrives or the hangup timer fires, which sets Ended; a response of      *)
(* sub-type waiting leaves the call Ended, a failure or a response of      *)
(* another sub-type leaves it Failed; no DiscardCall is ever issued once   *)
(* the hangup was deferred.                                                *)
(***************************************************************************)
C3_DeferredHangup ==
    [][/\ finishAfterRequestingCall' => (numDiscard' = 0 /\ pending'["DiscardCall"] = 0)
       /\ (HungUpWhileRequesting /\ last' # NotObserved) =>
             state' = IF last' = [op |-> "RequestCall.done", arg |-> "phoneCallWaiting"]
                      THEN "Ended"
                      ELSE IF last'.op \in {"RequestCall.done", "RequestCall.fail"}
                      THEN "Failed"
                      ELSE IF last'.op = "hangupByTimeout" THEN "Ended"
                      ELSE "Requesting"]_vars

C3_Witness ==
    /\ last = [op |-> "RequestCall.done", arg |-> "phoneCallWaiting"]
    /\ finishAfterRequestingCall
    /\ timerArmed
    /\ out = <<<<"stateChanged", "Waiting">>, <<"stateChanged", "Ended">>,
               <<"callFinished">>>>
    /\ state = "Ended"
    /\ id = 0
    /\ numDiscard = 0

(***************************************************************************)
(* C4: an Incoming call in ExchangingKeys that is handed a confirmed call  *)
(* whose first bytes do not hash to the stored commitment goes to Failed,  *)
(* derives no key and creates no controller.                               *)
(***************************************************************************)
C4_CommitmentMismatchFails ==
    (Running /\ type = "Incoming" /\ state = "ExchangingKeys") =>
        \A call \in AllPhoneCalls :
            (call.id = id /\ Sha256(call.g_a_or_b) # gaHash) =>
                LET r == HandleUpdate(This, call, "")
                IN /\ r.state = "Failed"
                   /\ r.ret = "true"
                   /\ r.authKey = authKey
                   /\ r.keyFingerprint = keyFingerprint
                   /\ r.controller = controller
                   /\ r.numControllers = numControllers
                   /\ ~Emitted(r, <<"controller">>)

C4_Witness ==
    /\ last = [op |-> "handleUpdate", arg |-> "phoneCall"]
    /\ type = "Incoming"
    /\ \A b \in PeerBytes :
          Sha256(b) = gaHash => ComputeModExpFinal(dhConfig, b, randomPower) # <<>>
    /\ out = <<<<"stateChanged", "Failed">>, <<"callFailed">>>>
    /\ state = "Failed"
    /\ keyFingerprint = ZeroFingerprint
    /\ ~controller.exists
    /\ numControllers = 0

(***************************************************************************)
(* C5: the controller is created only from a confirmed call that passed    *)
(* the validation of its fields: access hash, admin and participant ids    *)
(* and key fingerprint equal what the call holds. On a mismatch the call   *)
(* is Failed, Established is not entered and no controller is created.     *)
(* Stated of the two handlers that reach createAndStartController: the     *)
(* done handler of ConfirmCall and the phoneCall case of handleUpdate.     *)
(***************************************************************************)
FieldsValid(c, call) ==
    /\ call.access_hash = c.accessHash
    /\ call.admin_id = (IF c.type = "Outgoing" THEN CurrentUserId ELSE PeerUserId)
    /\ call.participant_id = (IF c.type = "Outgoing" THEN PeerUserId ELSE CurrentUserId)
    /\ call.key_fingerprint = c.keyFingerprint

ControllerOnlyIfValid(r, call) ==
    IF Emitted(r, <<"controller">>)
    THEN /\ FieldsValid(r, call)
         /\ r.state = "Established"
         /\ r.controller.exists
         /\ r.controller.key = r.authKey
    ELSE /\ r.controller = controller
         /\ r.numControllers = numControllers
         /\ ~FieldsValid(r, call) =>
               (r.state = "Failed" /\ ~Emitted(r, <<"stateChanged", "Established">>))

C5_ControllerOnlyAfterValidation ==
    Running =>
        /\ pending["ConfirmCall"] > 0 =>
              \A call \in AllPhoneCalls :
                  LET r == ConfirmCallDone(This, call)
                  IN /\ ControllerOnlyIfValid(r, call)
                     /\ FieldsValid(r, call) => Emitted(r, <<"controller">>)
        /\ (type = "Incoming" /\ state = "ExchangingKeys") =>
              \A call \in AllPhoneCalls :
                  call.id = id => ControllerOnlyIfValid(HandleUpdate(This, call, ""), call)
        /\ controller.exists => numControllers > 0

C5_Witness ==
    /\ last = [op |-> "ConfirmCall.done", arg |-> "phoneCall"]
    /\ out = <<<<"stateChanged", "Failed">>, <<"callFailed">>>>
    /\ state = "Failed"
    /\ keyFingerprint # ZeroFingerprint
    /\ ~controller.exists
    /\ numControllers = 0

(***************************************************************************)
(* C6: setState called with the state the call already holds changes       *)
(* nothing and notifies no one: no stateChanged, no delegate callback, no  *)
(* timer, no new start time.                                               *)
(***************************************************************************)
C6_SetStateIdempotent ==
    /\ SetState(This, state) = This
    /\ (Running /\ queue # <<>> /\ Head(queue) = state) =>
          LET c == Enter("InvokeQueued", Head(queue))
          IN RunQueued(c) = [c EXCEPT !.queue = Tail(@)]

C6_Witness ==
    /\ last.op = "InvokeQueued"
    /\ last.arg = state
    /\ state = "Established"
    /\ out = <<>>

(***************************************************************************)
(* C7: the Outgoing happy path. With DH values that yield a key: start     *)
(* puts the call in Requesting; the waiting response stores id and access  *)
(* hash and moves it to Waiting; an accepted update with the call's id,    *)
(* access hash and identities moves it to ExchangingKeys and issues        *)
(* ConfirmCall; the confirm response with matching fields and fingerprint  *)
(* moves it to Established and creates the controller with the derived     *)
(* key, marked as the initiator.                                           *)
(***************************************************************************)
Issued(c, r, req) ==
    /\ r.pending[req] = c.pending[req] + 1
    /\ \E k \in 1..Len(r.out) : r.out[k][1] = "request" /\ r.out[k][2] = req

C7_OutgoingHappyPath ==
    (Running /\ type = "Outgoing") =>
        /\ ~started =>
              \A config \in DhConfigs, power \in RandomPowers :
                  ComputeModExpFirst(config, power) # <<>> =>
                      LET r == Start(This, config, power)
                      IN r.state = "Requesting" /\ Issued(This, r, "RequestCall")
        /\ (state = "Requesting" /\ pending["RequestCall"] > 0
            /\ ~finishAfterRequestingCall) =>
              \A result \in AllWaiting :
                  LET r == RequestCallDone(This, result)
                  IN /\ r.state = "Waiting"
                     /\ r.id = result.id
                     /\ r.accessHash = result.access_hash
        /\ state = "Waiting" =>
              \A call \in AllAccepted :
                  (/\ call.id = id
                   /\ call.access_hash = accessHash
                   /\ call.admin_id = CurrentUserId
                   /\ call.participant_id = PeerUserId
                   /\ ComputeModExpFinal(dhConfig, call.g_b, randomPower) # <<>>) =>
                      LET r == HandleUpdate(This, call, "")
                      IN r.state = "ExchangingKeys" /\ Issued(This, r, "ConfirmCall")
        /\ (state = "ExchangingKeys" /\ pending["ConfirmCall"] > 0) =>
              \A call \in AllPhoneCalls :
                  FieldsValid(This, call) =>
                      LET r == ConfirmCallDone(This, call)
                      IN /\ r.state = "Established"
                         /\ r.controller = [exists |-> TRUE, key |-> authKey,
                                            isOutgoing |-> TRUE]

C7_Witness ==
    /\ last = [op |-> "ConfirmCall.done", arg |-> "phoneCall"]
    /\ type = "Outgoing"
    /\ out = <<<<"stateChanged", "Established">>, <<"startTime">>, <<"controller">>>>
    /\ state = "Established"
    /\ controller = [exists |-> TRUE, key |-> authKey, isOutgoing |-> TRUE]
    /\ keyFingerprint = ComputeFingerprint(Unpack(authKey))
    /\ numControllers = 1
    /\ numDiscard = 0
    /\ ~delegateNotified
    /\ ~finishAfterRequestingCall

(***************************************************************************)
(* C8: the Incoming happy path. A constructed Incoming call is in Ringing  *)
(* and start leaves it there; a requested update with the identities of    *)
(* the call stores id, access hash and commitment; answer(), with DH       *)
(* values that yield g_b, moves it to ExchangingKeys and issues            *)
(* AcceptCall; a confirmed call with the call's id whose bytes hash to the *)
(* commitment, with matching fields and fingerprint, moves it to           *)
(* Established and creates the controller with the derived key, marked as  *)
(* the responder.                                                          *)
(***************************************************************************)
C8_IncomingHappyPath ==
    (Running /\ type = "Incoming") =>
        /\ (~started /\ id = 0 /\ ~delegateNotified) => state = "Ringing"
        /\ ~started =>
              \A config \in DhConfigs, power \in RandomPowers :
                  Start(This, config, power).state = "Ringing"
        /\ id = 0 =>
              \A call \in AllRequested :
                  (/\ call.admin_id = PeerUserId
                   /\ call.participant_id = CurrentUserId
                   /\ call.g_a_hash.size = Sha256Size) =>
                      LET r == HandleUpdate(This, call, "")
                      IN /\ Handles(This, call)
                         /\ r.id = call.id
                         /\ r.accessHash = call.access_hash
                         /\ r.gaHash = call.g_a_hash
                         /\ r.state = state
                         /\ r.ret = "true"
        /\ (state = "Ringing" /\ id # 0
            /\ ComputeModExpFirst(dhConfig, randomPower) # <<>>) =>
              LET r == Answer(This)
              IN /\ r.state = "ExchangingKeys"
                 /\ Issued(This, r, "AcceptCall")
                 /\ Emitted(r, <<"request", "AcceptCall",
                                 [id |-> id, accessHash |-> accessHash,
                                  gb |-> ComputeModExpFirst(dhConfig, randomPower)]>>)
        /\ state = "ExchangingKeys" =>
              \A call \in AllPhoneCalls :
                  LET raw == ComputeModExpFinal(dhConfig, call.g_a_or_b, randomPower)
                  IN (/\ call.id = id
                      /\ Sha256(call.g_a_or_b) = gaHash
                      /\ raw # <<>>
                      /\ call.access_hash = accessHash
                      /\ call.admin_id = PeerUserId
                      /\ call.participant_id = CurrentUserId
                      /\ call.key_fingerprint = FingerprintOf[raw]) =>
                         LET r == HandleUpdate(This, call, "")
                         IN /\ r.state = "Established"
                            /\ r.authKey = AuthKeyOf[raw]
                            /\ r.controller = [exists |-> TRUE, key |-> AuthKeyOf[raw],
                                               isOutgoing |-> FALSE]

C8_Witness ==
    /\ last = [op |-> "handleUpdate", arg |-> "phoneCall"]
    /\ type = "Incoming"
    /\ out = <<<<"stateChanged", "Established">>, <<"startTime">>, <<"controller">>>>
    /\ state = "Established"
    /\ controller = [exists |-> TRUE, key |-> authKey, isOutgoing |-> FALSE]
    /\ keyFingerprint = ComputeFingerprint(Unpack(authKey))
    /\ pending["AcceptCall"] > 0
    /\ numControllers = 1
    /\ numDiscard = 0
    /\ ~delegateNotified

(***************************************************************************)
(* C9: handleUpdate given an empty, waiting, confirmed, discarded or       *)
(* accepted update whose id is not the call's returns false and leaves     *)
(* the call as it was: no field changes, nothing is requested or notified. *)
(***************************************************************************)
C9_IdMismatchIgnored ==
    Running =>
        \A call \in AllWithIdMatch :
            call.id # id =>
                \A debugLog \in (IF call.type = "phoneCallDiscarded"
                                 THEN {"", "log"} ELSE {""}) :
                    HandleUpdate(This, call, debugLog) = [This EXCEPT !.ret = "false"]

C9_Witness ==
    /\ last = [op |-> "handleUpdate", arg |-> "phoneCallDiscarded"]
    /\ ret = "false"
    /\ out = <<>>
    /\ id # 0
    /\ state = "Established"
    /\ controller.exists

(***************************************************************************)
(* C10: id and access hash are assigned at most once: no step changes an   *)
(* id or an access hash that is not 0, and neither a requested update the  *)
(* call handles nor a response to RequestCall, whatever id and access hash *)
(* it carries, replaces one.                                               *)
(***************************************************************************)
KeepsId(r) ==
    /\ id # 0 => r.id = id
    /\ accessHash # 0 => r.accessHash = accessHash

C10_IdAssignedOnce ==
    /\ [](Running =>
            /\ \A call \in AllRequested :
                  Handles(This, call) => KeepsId(HandleUpdate(This, call, ""))
            /\ pending["RequestCall"] > 0 =>
                  \A result \in AllWaiting : KeepsId(RequestCallDone(This, result)))
    /\ [][/\ id # 0 => id' = id
          /\ accessHash # 0 => accessHash' = accessHash]_vars

C10_Witness ==
    /\ last = [op |-> "AcceptCall.done", arg |-> "phoneCallWaiting"]
    /\ id = FirstId
    /\ accessHash = FirstAccessHash
    /\ state = "ExchangingKeys"
    /\ out = <<>>

(***************************************************************************)
(* The call with its timer running: the timer, once scheduled, fires       *)
(* unless it is cancelled with the call. Nothing is assumed of the server  *)
(* (a response may never arrive) and nothing of the order in which the     *)
(* owner's queue and the timer are served. The runs of this specification  *)
(* are not recorded (last stays NotObserved), so none of them ends at a    *)
(* recorded call.                                                          *)
(***************************************************************************)
FairNext == Next /\ last' = NotObserved

FairSpec ==
    /\ Init
    /\ [][FairNext]_vars
    /\ WF_vars(DoHangupByTimeout /\ last' = NotObserved)

(***************************************************************************)
(* C11: once finish has moved a call with an id to HangingUp and sent      *)
(* DiscardCall, the call reaches Ended or is destroyed, whatever becomes   *)
(* of the request: its failure sets Ended at once, its success queues      *)
(* setState(Ended), and the timer finish armed stays scheduled until it    *)
(* fires.                                                                  *)
(***************************************************************************)
C11_HangingUpEnds ==
    /\ [](alive /\ pending["DiscardCall"] > 0 =>
            /\ DiscardCallFail(This).state = "Ended"
            /\ DiscardCallDone(This, <<>>, "").queue = Append(queue, "Ended"))
    /\ [](alive /\ state = "HangingUp" /\ numDiscard > 0 => timerArmed \/ queue # <<>>)
    /\ (alive /\ state = "HangingUp" /\ numDiscard > 0) ~> (state = "Ended" \/ ~alive)

C11_Witness ==
    /\ alive
    /\ state = "Ended"
    /\ numDiscard = 1
    /\ pending["DiscardCall"] = 1
    /\ ~timerArmed
    /\ queue = <<>>
    /\ ~controller.exists

(***************************************************************************)
(* C12: a call in Busy has its timer scheduled, a discarded update with    *)
(* reason busy that the call takes puts it there, and from Busy the call   *)
(* reaches Ended or is destroyed.                                          *)
(***************************************************************************)
C12_BusyEnds ==
    /\ [](alive /\ state = "Busy" => timerArmed)
    /\ [](alive =>
            \A u \in DiscardedUpdates :
                (u.id = id /\ u.reason = "busy") =>
                    LET c == HandleUpdate(This, u, "")
                    IN c.state = "Busy" /\ c.timerArmed)
    /\ (alive /\ state = "Busy") ~> (state = "Ended" \/ ~alive)

C12_Witness ==
    /\ alive
    /\ state = "Busy"
    /\ timerArmed
    /\ type = "Outgoing"
    /\ id # 0
    /\ pending["DiscardCall"] = 0
    /\ numDiscard = 0

(***************************************************************************)
(* C13: a transport callback changes nothing of the call but the owner's   *)
(* queue, to which it appends at most one deferred setState. It changes no *)
(* state and notifies nobody, in whatever reachable state it runs, so      *)
(* every change of the state is made by a step of the owner's thread.      *)
(***************************************************************************)
OnlyQueues(before, after) ==
    /\ [after EXCEPT !.queue = before.queue, !.overflow = before.overflow] = before
    /\ \/ after.queue = before.queue
       \/ \E s \in States : after.queue = Append(before.queue, s)

C13_CallbackOnlyQueues ==
    /\ [](Running /\ controller.exists =>
            \A controllerState \in ControllerStates :
                LET before == Enter("handleControllerStateChange", controllerState)
                IN OnlyQueues(before,
                              HandleControllerStateChange(before, controllerState)))
    /\ [][last'.op = "handleControllerStateChange" =>
            /\ state' = state
            /\ delegateNotified' = delegateNotified
            /\ startTime' = startTime
            /\ timerArmed' = timerArmed
            /\ out' = <<>>]_vars

C13_Witness ==
    /\ last = [op |-> "handleControllerStateChange", arg |-> "STATE_FAILED"]
    /\ state = "Established"
    /\ queue = <<"Failed">>
    /\ ~delegateNotified
    /\ out = <<>>

(***************************************************************************)
(* C14: the fail handler of RequestCall, AcceptCall and ConfirmCall sets   *)
(* Failed and sends nothing, and so does the done handler given a result   *)
(* whose inner call is not of the expected sub-type; no response handler   *)
(* of these requests sends one of them again.                              *)
(***************************************************************************)
Signaling == {"RequestCall", "AcceptCall", "ConfirmCall"}

Sends(c, reqs) ==
    \E k \in 1..Len(c.out) : c.out[k][1] = "request" /\ c.out[k][2] \in reqs

FailedWithoutRequest(before, after) ==
    /\ after.state = "Failed"
    /\ after.pending = before.pending
    /\ ~Sends(after, Requests)
    /\ after.queue = before.queue

C14_FailureIsTerminal ==
    /\ (Running /\ pending["RequestCall"] > 0) =>
          /\ LET before == Answered(Enter("RequestCall.fail", ""), "RequestCall")
             IN FailedWithoutRequest(before, RequestCallFail(before))
          /\ \A result \in ResultsOf("phoneCallWaiting") :
                LET before == Answered(Enter("RequestCall.done", result.type),
                                       "RequestCall")
                IN /\ result.type # "phoneCallWaiting" =>
                          FailedWithoutRequest(before, RequestCallDone(before, result))
                   /\ ~Sends(RequestCallDone(before, result), Signaling)
    /\ (Running /\ pending["AcceptCall"] > 0) =>
          /\ LET before == Answered(Enter("AcceptCall.fail", ""), "AcceptCall")
             IN FailedWithoutRequest(before, AcceptCallFail(before))
          /\ \A result \in ResultsOf("phoneCallWaiting") :
                LET before == Answered(Enter("AcceptCall.done", result.type),
                                       "AcceptCall")
                IN /\ result.type # "phoneCallWaiting" =>
                          FailedWithoutRequest(before, AcceptCallDone(before, result))
                   /\ ~Sends(AcceptCallDone(before, result), Signaling)
    /\ (Running /\ pending["ConfirmCall"] > 0) =>
          /\ LET before == Answered(Enter("ConfirmCall.fail", ""), "ConfirmCall")
             IN FailedWithoutRequest(before, ConfirmCallFail(before))
          /\ \A result \in ResultsOf("phoneCall") :
                LET before == Answered(Enter("ConfirmCall.done", result.type),
                                       "ConfirmCall")
                IN /\ result.type # "phoneCall" =>
                          FailedWithoutRequest(before, ConfirmCallDone(before, result))
                   /\ ~Sends(ConfirmCallDone(before, result), Signaling)
    /\ last.op \in {"RequestCall.fail", "AcceptCall.fail", "ConfirmCall.fail"} =>
          state = "Failed" /\ ~Sends(This, Requests)

C14_Witness ==
    /\ last.op = "ConfirmCall.fail"
    /\ type = "Outgoing"
    /\ state = "Failed"
    /\ delegateNotified
    /\ pending = [r \in Requests |-> 0]
    /\ ~Sends(This, Requests)

(***************************************************************************)
(* The derivation of the key on its own: what confirmAcceptedCall and      *)
(* startConfirmedCall do with computedAuthKey once ComputeModExpFinal gave *)
(* a non-empty value, for values of every length up to kAuthKeySize. The   *)
(* call starts holding the computed value in last.arg.                     *)
(***************************************************************************)
SecretLengths == {1, 2, 3, kAuthKeySize - 1, kAuthKeySize}

RawSecrets ==
    {[i \in 1..n |-> (first + step * (i - 1)) % 256] :
        n \in SecretLengths,
        first \in (0..MaxSecretByte) \cup {255},
        step \in {0, 1, 85}}

\* _authKey filled from computedAuthKey, then _keyFingerprint.
DeriveKey(c, computedAuthKey) ==
    LET filled == FillAuthKey(computedAuthKey)
    IN [c EXCEPT !.authKey = Pack(filled),
                 !.keyFingerprint = ComputeFingerprint(filled)]

KeyInit ==
    \E t \in Types, computedAuthKey \in RawSecrets :
        LET c == Constructed(t)
        IN /\ type = c.type
           /\ state = c.state
           /\ id = c.id
           /\ accessHash = c.accessHash
           /\ finishAfterRequestingCall = c.finishAfterRequestingCall
           /\ dhConfig = c.dhConfig
           /\ randomPower = c.randomPower
           /\ ga = c.ga
           /\ gb = c.gb
           /\ gaHash = c.gaHash
           /\ authKey = c.authKey
           /\ keyFingerprint = c.keyFingerprint
           /\ controller = c.controller
           /\ startTime = c.startTime
           /\ started = c.started
           /\ alive = c.alive
           /\ delegateNotified = c.delegateNotified
           /\ pending = c.pending
           /\ queue = c.queue
           /\ timerArmed = c.timerArmed
           /\ numDiscard = c.numDiscard
           /\ numControllers = c.numControllers
           /\ last = [op |-> "ComputeModExpFinal", arg |-> computedAuthKey]
           /\ ret = "none"
           /\ out = <<>>

KeyDerived(op) ==
    /\ authKey' = DeriveKey(This, last.arg).authKey
    /\ keyFingerprint' = DeriveKey(This, last.arg).keyFingerprint
    /\ last' = [op |-> op, arg |-> last.arg]
    /\ UNCHANGED <<type, state, id, accessHash, finishAfterRequestingCall,
                   dhConfig, randomPower, ga, gb, gaHash, controller, startTime,
                   started, alive, delegateNotified, pending, queue, timerArmed,
                   numDiscard, numControllers, ret, out>>

DoConfirmAcceptedCallKey ==
    /\ type = "Outgoing" /\ last.op = "ComputeModExpFinal"
    /\ KeyDerived("confirmAcceptedCall")

DoStartConfirmedCallKey ==
    /\ type = "Incoming" /\ last.op = "ComputeModExpFinal"
    /\ KeyDerived("startConfirmedCall")

KeyNext == DoConfirmAcceptedCallKey \/ DoStartConfirmedCallKey

KeySpec == KeyInit /\ [][KeyNext]_vars

\* The state after the key was derived on either path.
Derived == last.op \in {"confirmAcceptedCall", "startConfirmedCall"}

(***************************************************************************)
(* C15 as the code has it: the fingerprint is the 64-bit number whose      *)
(* least significant byte is byte 12 of the SHA-1 digest of the key and    *)
(* whose most significant byte is byte 19: h[19]*2^56 + h[18]*2^48 +       *)
(* h[17]*2^40 + h[16]*2^32 + h[15]*2^24 + h[14]*2^16 + h[13]*2^8 + h[12].  *)
(* The number is compared as its eight bytes, the most significant first;  *)
(* byte k of the digest is h[k + 1] here.                                  *)
(***************************************************************************)
C15_FingerprintLittleEndian ==
    Derived =>
        LET h == Sha1(Unpack(authKey))
        IN keyFingerprint = <<h[20], h[19], h[18], h[17], h[16], h[15], h[14], h[13]>>

(***************************************************************************)
(* C15 as stated: the fingerprint is assembled from bytes 12 to 19 of the  *)
(* digest with byte 12 the most significant: h[12]*2^56 + h[13]*2^48 +     *)
(* ... + h[18]*2^8 + h[19].                                                *)
(***************************************************************************)
C15_FingerprintBigEndian ==
    Derived =>
        LET h == Sha1(Unpack(authKey))
        IN keyFingerprint = <<h[13], h[14], h[15], h[16], h[17], h[18], h[19], h[20]>>

C15_Witness ==
    /\ last.op = "confirmAcceptedCall"
    /\ Len(last.arg) = kAuthKeySize
    /\ LET h == Sha1(Unpack(authKey))
       IN /\ keyFingerprint[1] = h[20]
          /\ keyFingerprint[8] = h[13]
          /\ h[20] # h[13]

(***************************************************************************)
(* C16: for a computed value of n bytes, 1 <= n <= 256, the stored key has *)
(* 256 bytes, the first 256 - n are zero and the last n are the computed   *)
(* value byte for byte, after confirmAcceptedCall's fill and after         *)
(* startConfirmedCall's alike.                                             *)
(***************************************************************************)
C16_KeyPadding ==
    Derived =>
        LET raw == last.arg
            n == Len(raw)
            key == Unpack(authKey)
        IN /\ Len(key) = 256
           /\ \A i \in 1..(256 - n) : key[i] = 0
           /\ \A i \in 1..n : key[256 - n + i] = raw[i]

C16_Witness ==
    /\ last.op = "startConfirmedCall"
    /\ Len(last.arg) = 3
    /\ last.arg[1] # 0
    /\ authKey.zeros = 253
    /\ authKey.rest = last.arg

(***************************************************************************)
(* C17: finish changes nothing in HangingUp and in Ended; with no id, in a *)
(* state other than Requesting, HangingUp and Ended, it sets Ended and     *)
(* sends nothing; and every DiscardCall that any step sends carries an id  *)
(* that is not 0 and is sent from a state other than Requesting,           *)
(* HangingUp and Ended.                                                    *)
(***************************************************************************)
DiscardReasons == {"hangup", "missed", "busy"}

NoDiscardFrom == {"Requesting", "HangingUp", "Ended"}

C17_FinishGating ==
    /\ Running =>
          \A reason \in DiscardReasons :
              LET before == Enter("finish", reason)
                  after == Finish(before, reason)
              IN /\ state \in {"HangingUp", "Ended"} => after = before
                 /\ (id = 0 /\ state \notin NoDiscardFrom) =>
                        /\ after.state = "Ended"
                        /\ ~Sends(after, Requests)
                        /\ after.pending = pending
                        /\ after.numDiscard = numDiscard
                        /\ after.timerArmed = timerArmed
                 /\ Sends(after, {"DiscardCall"}) =>
                        id # 0 /\ state \notin NoDiscardFrom
    /\ \A k \in 1..Len(out) :
          (out[k][1] = "request" /\ out[k][2] = "DiscardCall") =>
              out[k][3].id # 0 /\ out[k][3].from \notin NoDiscardFrom

C17_Witness ==
    /\ last.op = "hangup"
    /\ type = "Incoming"
    /\ id = 0
    /\ state = "Ended"
    /\ numDiscard = 0
    /\ ~Sends(This, Requests)
    /\ ~timerArmed

(***************************************************************************)
(* C18: the done handler of DiscardCall does not set Ended. It posts       *)
(* setState(Ended) to the owner's queue and hands the updates of the       *)
(* response on: what it leaves is what the updates alone leave, with one   *)
(* more deferred call at the end of the queue, and with no update the      *)
(* state is the one before. The deferred call runs in a later step of a    *)
(* live call; a destroyed call has no deferred call left.                  *)
(***************************************************************************)
C18_EndedIsDeferred ==
    /\ (Running /\ pending["DiscardCall"] > 0) =>
          \A updates \in UpdateBatches :
              LET before == Answered(Enter("DiscardCall.done", Len(updates)),
                                     "DiscardCall")
                  after == DiscardCallDone(before, updates, "")
              IN /\ after.queue = Append(before.queue, "Ended")
                 /\ [after EXCEPT !.queue = before.queue, !.overflow = FALSE]
                        = Dropped(SentUpdatesReceived(before, updates, ""))
                 /\ updates = <<>> =>
                        /\ after.state = state
                        /\ after.delegateNotified = delegateNotified
                        /\ after.out = <<>>
    /\ (last.op = "DiscardCall.done" /\ last.arg = 0) =>
          /\ queue # <<>>
          /\ queue[Len(queue)] = "Ended"
    /\ ~alive => queue = <<>>

C18_Witness ==
    /\ last = [op |-> "DiscardCall.done", arg |-> 0]
    /\ alive
    /\ state = "HangingUp"
    /\ queue = <<"Ended">>
    /\ pending["DiscardCall"] = 0
    /\ ~delegateNotified

(***************************************************************************)
(* C19: at most one DiscardCall request is sent for a call, whatever the   *)
(* sequence of hangups, declines, updates, responses, timer firings and    *)
(* transport callbacks.                                                    *)
(***************************************************************************)
C19_AtMostOneDiscard == numDiscard <= 1

(***************************************************************************)
(* C20: a call creates its transport controller at most once:              *)
(* createAndStartController never replaces a controller that exists.       *)
(***************************************************************************)
C20_AtMostOneController == numControllers <= 1

====
